---- MODULE Spec2Model ----
(***************************************************************************)
(* A model of PDF-Comparer/pdf_comparer.py: the text-block extraction      *)
(* (get_text_blocks), the similarity evaluator (calculate_text_similarity, *)
(* blocks_are_similar), the greedy page matcher and aggregator             *)
(* (find_differences), the highlight renderer (highlight_differences) and  *)
(* the pipeline (compare_pdfs).                                            *)
(*                                                                         *)
(* Numbers: coordinates are whole points, font sizes are hundredths of a   *)
(* point, the similarity threshold is in tenths (8 stands for 0.8).        *)
(* Texts are sequences of one-character strings.                           *)
(* Python sets are modelled as the CPython open-addressing hash table      *)
(* they are, because the code iterates over sets and the order of that     *)
(* iteration decides the order of its results.                             *)
(***************************************************************************)
EXTENDS Integers, Sequences, FiniteSets, TLC

\* ------------------------------------------------------------------------
\* Bounds of the model
\* ------------------------------------------------------------------------
MaxTextLen == 3      \* longest text drawn for calculate_text_similarity
MaxSpans == 2        \* most spans in one document
MaxPages == 2        \* most pages in one document
MaxStoreFrags == 2   \* most fragments in one store handed to find_differences

\* ------------------------------------------------------------------------
\* Generic helpers on sequences
\* ------------------------------------------------------------------------
Range(s) == {s[i] : i \in DOMAIN s}

SeqsUpTo(S, n) == UNION {[1..k -> S] : k \in 0..n}

RECURSIVE SumSeq(_)
SumSeq(s) == IF s = <<>> THEN 0 ELSE Head(s) + SumSeq(Tail(s))

Abs(x) == IF x < 0 THEN -x ELSE x

\* ------------------------------------------------------------------------
\* Python's set of small non-negative ints: CPython's hash table
\* (hash(k) = k).  A table is [mask, slots, fill, used]; slots[i+1] is the
\* entry at index i: a key, EMPTY (never used) or DUMMY (removed).
\* ------------------------------------------------------------------------
EMPTY == -1
DUMMY == -2
PySet_MINSIZE == 8
LINEAR_PROBES == 9
PERTURB_SHIFT == 5

NewSet ==
  [mask |-> PySet_MINSIZE - 1, slots |-> [i \in 1..PySet_MINSIZE |-> EMPTY],
   fill |-> 0, used |-> 0]

\* The probe sequence of set_add_entry / set_lookkey / set_insert_clean:
\* the index of the first entry that is EMPTY or holds key.
RECURSIVE Probe(_, _, _, _, _, _)
Probe(slots, mask, key, i, perturb, d) ==
  LET probes == IF i + LINEAR_PROBES <= mask THEN LINEAR_PROBES ELSE 0
      e == slots[i + d + 1]
      p == perturb \div (2 ^ PERTURB_SHIFT)   \* perturb >>= PERTURB_SHIFT
  IN IF e = EMPTY \/ e = key THEN i + d
     ELSE IF d < probes THEN Probe(slots, mask, key, i, perturb, d + 1)
     ELSE Probe(slots, mask, key, (i * 5 + 1 + p) % (mask + 1), p, 0)

Lookup(slots, mask, key) == Probe(slots, mask, key, key % (mask + 1), key, 0)

\* set iteration: the active keys in slot order
RECURSIVE ItemsFrom(_, _)
ItemsFrom(slots, i) ==
  IF i > Len(slots) THEN <<>>
  ELSE IF slots[i] >= 0 THEN <<slots[i]>> \o ItemsFrom(slots, i + 1)
  ELSE ItemsFrom(slots, i + 1)

SetItems(s) == ItemsFrom(s.slots, 1)

\* set_insert_clean of each key in turn: the keys are not in the table, so
\* the probe ends at the first EMPTY entry of each key's probe sequence
RECURSIVE InsertAllClean(_, _, _)
InsertAllClean(slots, mask, keys) ==
  IF keys = <<>> THEN slots
  ELSE InsertAllClean([slots EXCEPT ![Lookup(slots, mask, Head(keys)) + 1] = Head(keys)],
                      mask, Tail(keys))

RECURSIVE TableSize(_, _)
TableSize(n, minused) == IF n <= minused THEN TableSize(2 * n, minused) ELSE n

\* the active keys of s inserted, in slot order, into a fresh table of n entries
Rebuilt(s, n) ==
  [mask |-> n - 1,
   slots |-> InsertAllClean([i \in 1..n |-> EMPTY], n - 1, SetItems(s)),
   fill |-> s.used, used |-> s.used]

SetTableResize(s, minused) == Rebuilt(s, TableSize(PySet_MINSIZE, minused))

\* the end of set_add_entry: the table grows once it is three fifths full
GrowIfFull(t) ==
  IF t.fill * 5 < t.mask * 3 THEN t ELSE SetTableResize(t, t.used * 4)

\* set_add_entry, the probe having ended at entry i
SetAddAt(s, key, i) ==
  IF s.slots[i + 1] = key THEN s
  ELSE GrowIfFull([s EXCEPT !.slots[i + 1] = key, !.fill = @ + 1, !.used = @ + 1])

SetAdd(s, key) == SetAddAt(s, key, Lookup(s.slots, s.mask, key))

RECURSIVE SetAddAll(_, _)
SetAddAll(s, keys) ==
  IF keys = <<>> THEN s ELSE SetAddAll(SetAdd(s, Head(keys)), Tail(keys))

\* set(iterable) for an iterable that is neither a set nor a dict
SetFromSeq(keys) == SetAddAll(NewSet, keys)

\* set.remove of a key that is in the set: its entry becomes a dummy
SetRemove(s, key) ==
  [s EXCEPT !.slots[Lookup(s.slots, s.mask, key) + 1] = DUMMY, !.used = @ - 1]

\* set_merge after its resize: the entries of other are copied as they
\* lie, or inserted into the empty table, or added one by one
MergeEntries(r, other) ==
  IF r.fill = 0 /\ r.mask = other.mask /\ other.fill = other.used
  THEN [r EXCEPT !.slots = other.slots, !.fill = other.fill, !.used = other.used]
  ELSE IF r.fill = 0
  THEN [r EXCEPT !.slots = InsertAllClean(r.slots, r.mask, SetItems(other)),
                 !.fill = other.used, !.used = other.used]
  ELSE SetAddAll(r, SetItems(other))

\* set_merge(so, other): so |= other
SetMerge(so, other) ==
  IF other.used = 0 THEN so
  ELSE MergeEntries(IF (so.fill + other.used) * 5 >= so.mask * 3
                    THEN SetTableResize(so, (so.used + other.used) * 2) ELSE so,
                    other)

\* a | b: a copy of a, then merged with b
SetOr(a, b) == SetMerge(SetMerge(NewSet, a), b)

RangeSeq(n) == [i \in 1..n |-> i - 1]

\* ------------------------------------------------------------------------
\* calculate_text_similarity: normalisation, then difflib's
\* SequenceMatcher(None, text1, text2).ratio()
\* ------------------------------------------------------------------------
Whitespace == {" ", "\t"}

Lower(c) == CASE c = "A" -> "a" [] c = "B" -> "b" [] c = "C" -> "c" [] OTHER -> c

LowerText(t) == [i \in DOMAIN t |-> Lower(t[i])]

RECURSIVE LStrip(_)
LStrip(t) == IF t # <<>> /\ Head(t) \in Whitespace THEN LStrip(Tail(t)) ELSE t

RECURSIVE RStrip(_)
RStrip(t) ==
  IF t # <<>> /\ t[Len(t)] \in Whitespace THEN RStrip(SubSeq(t, 1, Len(t) - 1)) ELSE t

\* str.strip()
Strip(t) == RStrip(LStrip(t))

\* re.sub(r'\s+', ' ', t)
RECURSIVE CollapseWhitespace(_)
CollapseWhitespace(t) ==
  IF t = <<>> THEN <<>>
  ELSE IF Head(t) \in Whitespace
       THEN <<" ">> \o CollapseWhitespace(LStrip(t))
       ELSE <<Head(t)>> \o CollapseWhitespace(Tail(t))

NormalizeText(t) == CollapseWhitespace(Strip(LowerText(t)))

\* j2len of find_longest_match: the length of the common run of a and b that
\* ends at a[i], b[j] and stays inside the window (0-based indices)
RECURSIVE RunEndingAt(_, _, _, _, _, _)
RunEndingAt(a, b, alo, blo, i, j) ==
  IF i < alo \/ j < blo THEN 0
  ELSE IF a[i + 1] # b[j + 1] THEN 0
  ELSE 1 + RunEndingAt(a, b, alo, blo, i - 1, j - 1)

\* The two loops of find_longest_match: i over range(alo, ahi), j ascending
\* over the positions of a[i] in b[blo:bhi]; best is replaced on k > bestsize.
\* if k > bestsize: besti, bestj, bestsize = i-k+1, j-k+1, k
Better(best, i, j, k) == IF k > best[3] THEN <<i - k + 1, j - k + 1, k>> ELSE best

RECURSIVE LongestScan(_, _, _, _, _, _, _, _, _)
LongestScan(a, b, alo, ahi, blo, bhi, i, j, best) ==
  IF i >= ahi THEN best
  ELSE IF j >= bhi THEN LongestScan(a, b, alo, ahi, blo, bhi, i + 1, blo, best)
  ELSE LongestScan(a, b, alo, ahi, blo, bhi, i, j + 1,
                   Better(best, i, j, RunEndingAt(a, b, alo, blo, i, j)))

find_longest_match(a, b, alo, ahi, blo, bhi) ==
  LongestScan(a, b, alo, ahi, blo, bhi, alo, blo, <<alo, blo, 0>>)

\* get_matching_blocks: the total size of the blocks found by matching the
\* longest block and recursing on the pieces to its left and to its right
RECURSIVE MatchedLength(_, _, _, _, _, _)
\* the block <<i, j, k>> is counted, then the pieces on its two sides
MatchedAround(a, b, alo, ahi, blo, bhi, i, j, k) ==
  IF k = 0 THEN 0
  ELSE k + (IF alo < i /\ blo < j THEN MatchedLength(a, b, alo, i, blo, j) ELSE 0)
         + (IF i + k < ahi /\ j + k < bhi
            THEN MatchedLength(a, b, i + k, ahi, j + k, bhi) ELSE 0)

MatchedBlock(a, b, alo, ahi, blo, bhi, m) ==
  MatchedAround(a, b, alo, ahi, blo, bhi, m[1], m[2], m[3])

MatchedLength(a, b, alo, ahi, blo, bhi) ==
  MatchedBlock(a, b, alo, ahi, blo, bhi, find_longest_match(a, b, alo, ahi, blo, bhi))

\* ratio() = 2.0 * matches / length, 1.0 when both strings are empty; the
\* ratio is the fraction <<numerator, denominator>>
SequenceMatcherRatio(a, b) ==
  IF Len(a) + Len(b) = 0 THEN <<1, 1>>
  ELSE <<2 * MatchedLength(a, b, 0, Len(a), 0, Len(b)), Len(a) + Len(b)>>

calculate_text_similarity(text1, text2) ==
  SequenceMatcherRatio(NormalizeText(text1), NormalizeText(text2))

\* r1 = r2 as fractions
RatioEq(r1, r2) == r1[1] * r2[2] = r2[1] * r1[2]

\* RatioAtLeast with > for >=
RatioAbove(r, tenths) == r[1] * 10 > tenths * r[2]

\* ratio >= tenths / 10
RatioAtLeast(r, tenths) == r[1] * 10 >= tenths * r[2]

\* ------------------------------------------------------------------------
\* TextBlock and blocks_are_similar
\* ------------------------------------------------------------------------
TextBlock(bbox, text, page, font, size, color) ==
  [bbox |-> bbox, text |-> text, page |-> page, font |-> font, size |-> size,
   color |-> color]

\* PDFComparer.__init__: the configuration of a run
PDFComparer(similarity_threshold, position_threshold, check_formatting) ==
  [similarity_threshold |-> similarity_threshold,
   position_threshold |-> position_threshold,
   check_formatting |-> check_formatting]

text_similar(block1, block2, self) ==
  RatioAtLeast(calculate_text_similarity(block1.text, block2.text),
               self.similarity_threshold)

position_similar(block1, block2, self) ==
  \A k \in 1..4 : Abs(block1.bbox[k] - block2.bbox[k]) <= self.position_threshold

formatting_similar(block1, block2) ==
  /\ block1.font = block2.font
  /\ Abs(block1.size - block2.size) < 10      \* < 0.1 point
  /\ block1.color = block2.color

blocks_are_similar(block1, block2, self) ==
  /\ text_similar(block1, block2, self)
  /\ position_similar(block1, block2, self)
  /\ self.check_formatting => formatting_similar(block1, block2)

\* ------------------------------------------------------------------------
\* find_differences.  A store (a dict) is the sequence of its entries
\* [page, blocks] in insertion order.
\* ------------------------------------------------------------------------
DictKeys(d) == [k \in DOMAIN d |-> d[k].page]

DictGet(d, key, default) ==
  IF \E k \in DOMAIN d : d[k].page = key
  THEN d[CHOOSE k \in DOMAIN d : d[k].page = key].blocks
  ELSE default

\* the inner loop, lines 155-161: the originals js = list(unmatched_orig)
\* are tried in turn; j is the first similar one (-1: none), tried the
\* originals blocks_are_similar was called on
AlsoTried(j, r) == [j |-> r.j, tried |-> <<j>> \o r.tried]

RECURSIVE FirstSimilar(_, _, _, _)
FirstSimilar(mod_block, orig_page_blocks, js, self) ==
  IF js = <<>> THEN [j |-> -1, tried |-> <<>>]
  ELSE IF blocks_are_similar(mod_block, orig_page_blocks[Head(js) + 1], self)
       THEN [j |-> Head(js), tried |-> <<Head(js)>>]
       ELSE AlsoTried(Head(js), FirstSimilar(mod_block, orig_page_blocks, Tail(js), self))

\* MarkMatched forgetting line 160: the original stays available
MarkMatchedModifiedOnly(st, i, j) ==
  [st EXCEPT !.unmatched_mod = SetRemove(@, i)]

\* lines 159-160: both indices leave their unmatched sets
MarkMatched(st, i, j) ==
  [st EXCEPT !.unmatched_mod = SetRemove(@, i), !.unmatched_orig = SetRemove(@, j)]

\* the outcome r of the inner loop for modified block i: the evaluations
\* are recorded and, on a match, the two indices marked
AfterScan(st, i, r) ==
  IF r.j >= 0
  THEN MarkMatched([st EXCEPT !.evals = @ \o [k \in DOMAIN r.tried |-> <<i, r.tried[k]>>]],
                   i, r.j)
  ELSE [st EXCEPT !.evals = @ \o [k \in DOMAIN r.tried |-> <<i, r.tried[k]>>]]

\* one iteration of the outer loop, lines 153-161
MatchStep(st, i, orig_page_blocks, mod_page_blocks, self) ==
  AfterScan(st, i, FirstSimilar(mod_page_blocks[i + 1], orig_page_blocks,
                                SetItems(st.unmatched_orig), self))

RECURSIVE MatchLoop(_, _, _, _, _)
MatchLoop(st, is, orig_page_blocks, mod_page_blocks, self) ==
  IF is = <<>> THEN st
  ELSE MatchLoop(MatchStep(st, Head(is), orig_page_blocks, mod_page_blocks, self),
                 Tail(is), orig_page_blocks, mod_page_blocks, self)

\* lines 149-163 for one page: the indices of the modified blocks left
\* unmatched, in the order line 163 yields them, and the evaluations made
Unmatched(st) == [unmatched |-> SetItems(st.unmatched_mod), evals |-> st.evals]

\* line 152: the loop runs over list(unmatched_mod) as it was at its start
MatchFrom(st0, orig_page_blocks, mod_page_blocks, self) ==
  Unmatched(MatchLoop(st0, SetItems(st0.unmatched_mod), orig_page_blocks,
                      mod_page_blocks, self))

MatchPage(orig_page_blocks, mod_page_blocks, self) ==
  MatchFrom([unmatched_orig |-> SetFromSeq(RangeSeq(Len(orig_page_blocks))),
             unmatched_mod |-> SetFromSeq(RangeSeq(Len(mod_page_blocks))),
             evals |-> <<>>],
            orig_page_blocks, mod_page_blocks, self)

\* a difference: the block mod_page_blocks[idx] of page page_num
Difference(page_num, idx, mod_page_blocks) ==
  [page |-> page_num, idx |-> idx, block |-> mod_page_blocks[idx + 1]]

\* ExtendAll forgetting the extend: the page is only skipped
ExtendNone(acc, page_num, mod_page_blocks) == acc

\* line 144: differences.extend(mod_page_blocks)
ExtendAll(acc, page_num, mod_page_blocks) ==
  [acc EXCEPT !.differences =
     @ \o [k \in DOMAIN mod_page_blocks |-> Difference(page_num, k - 1, mod_page_blocks)]]

\* line 163: differences.extend(mod_page_blocks[i] for i in unmatched_mod)
ExtendUnmatched(acc, page_num, mod_page_blocks, m) ==
  [differences |-> acc.differences \o
     [k \in DOMAIN m.unmatched |-> Difference(page_num, m.unmatched[k], mod_page_blocks)],
   evals |-> acc.evals \o
     [k \in DOMAIN m.evals |-> <<page_num, m.evals[k][1], m.evals[k][2]>>]]

\* PageBody reporting the blocks of a page the modified revision lost
PageBodyReportingDeletions(acc, page_num, orig_page_blocks, mod_page_blocks, self) ==
  IF orig_page_blocks = <<>> THEN ExtendAll(acc, page_num, mod_page_blocks)
  ELSE IF mod_page_blocks = <<>> THEN ExtendAll(acc, page_num, orig_page_blocks)
  ELSE ExtendUnmatched(acc, page_num, mod_page_blocks,
                       MatchPage(orig_page_blocks, mod_page_blocks, self))

\* lines 143-163
PageBody(acc, page_num, orig_page_blocks, mod_page_blocks, self) ==
  IF orig_page_blocks = <<>> THEN ExtendAll(acc, page_num, mod_page_blocks)
  ELSE IF mod_page_blocks = <<>> THEN acc
  ELSE ExtendUnmatched(acc, page_num, mod_page_blocks,
                       MatchPage(orig_page_blocks, mod_page_blocks, self))

\* the body of the loop over pages, lines 140-165
PageStep(acc, page_num, original_blocks, modified_blocks, self) ==
  PageBody(acc, page_num, DictGet(original_blocks, page_num, <<>>),
           DictGet(modified_blocks, page_num, <<>>), self)

RECURSIVE PageLoop(_, _, _, _, _)
PageLoop(acc, pages, original_blocks, modified_blocks, self) ==
  IF pages = <<>> THEN acc
  ELSE PageLoop(PageStep(acc, Head(pages), original_blocks, modified_blocks, self),
                Tail(pages), original_blocks, modified_blocks, self)

\* line 137 and the order in which line 139 iterates over it
all_pages(original_blocks, modified_blocks) ==
  SetItems(SetOr(SetFromSeq(DictKeys(original_blocks)),
                 SetFromSeq(DictKeys(modified_blocks))))

\* differences: the list returned; evals: the calls of blocks_are_similar
\* made, as <<page, modified index, original index>>
find_differences(original_blocks, modified_blocks, self) ==
  PageLoop([differences |-> <<>>, evals |-> <<>>],
           all_pages(original_blocks, modified_blocks),
           original_blocks, modified_blocks, self)

\* ------------------------------------------------------------------------
\* get_text_blocks.  A document file is [readable, pages]; a page is the
\* sequence of its spans, a span is [text, bbox, font, size, color] as
\* extractDICT yields it, color being [kind, val] (an int or a tuple).
\* ------------------------------------------------------------------------
get_color_tuple(span) ==
  IF span.color.kind = "int" THEN <<0, 0, 0>>
  ELSE IF span.color.kind = "tuple" THEN SubSeq(span.color.val, 1, 3)
  ELSE <<0, 0, 0>>

\* lines 74-90: the blocks of one page in extraction order; spans whose
\* stripped text is empty make no block
\* lines 74-90 for one span: text is the stripped text
SpanBlocks(span, text, page_num) ==
  IF text # <<>>
  THEN <<TextBlock(span.bbox, text, page_num, span.font, span.size, get_color_tuple(span))>>
  ELSE <<>>

RECURSIVE PageBlocks(_, _)
PageBlocks(spans, page_num) ==
  IF spans = <<>> THEN <<>>
  ELSE SpanBlocks(Head(spans), Strip(Head(spans).text), page_num)
         \o PageBlocks(Tail(spans), page_num)

\* the sort key of line 93: (bbox[1], bbox[0]), that is (top, left)
KeyLess(x, y) ==
  \/ x.bbox[2] < y.bbox[2]
  \/ x.bbox[2] = y.bbox[2] /\ x.bbox[1] < y.bbox[1]

\* list.sort is stable: x goes after every element that is not greater
RECURSIVE InsertSorted(_, _)
InsertSorted(sorted, x) ==
  IF sorted = <<>> THEN <<x>>
  ELSE IF KeyLess(x, Head(sorted)) THEN <<x>> \o sorted
  ELSE <<Head(sorted)>> \o InsertSorted(Tail(sorted), x)

RECURSIVE SortBlocks(_)
SortBlocks(blocks) ==
  IF blocks = <<>> THEN <<>>
  ELSE InsertSorted(SortBlocks(SubSeq(blocks, 1, Len(blocks) - 1)), blocks[Len(blocks)])

\* every page of the document gets an entry, in page order (line 93 touches
\* the defaultdict for every page_num)
get_text_blocks(doc) ==
  [n \in DOMAIN doc |-> [page |-> n - 1, blocks |-> SortBlocks(PageBlocks(doc[n], n - 1))]]

\* ------------------------------------------------------------------------
\* highlight_differences
\* ------------------------------------------------------------------------
scale == 3

\* lines 177-179: page_differences[page_num]
page_differences(diffs, page_num) ==
  SelectSeq(diffs, LAMBDA d : d.block.page = page_num)

\* line 187
PageHasChanges(diffs, page_num) ==
  page_differences(diffs, page_num) # <<>>

\* line 201: the rectangle drawn for one difference
HighlightRect(diff) == [k \in 1..4 |-> diff.block.bbox[k] * scale]

\* OutputNumber without the + 1
OutputNumberZeroBased(page_num) == page_num

\* line 212: the number in the name page_<N>_differences.png
OutputNumber(page_num) == page_num + 1

\* lines 200-208: one rectangle for each difference of the page
HighlightRects(ds) == [k \in DOMAIN ds |-> HighlightRect(ds[k])]

\* lines 190-213: the image file written for page_num
OutputFile(diffs, page_num) ==
  [name |-> OutputNumber(page_num),
   rects |-> HighlightRects(page_differences(diffs, page_num))]

\* ------------------------------------------------------------------------
\* The inputs the model draws
\* ------------------------------------------------------------------------
\* spans of the documents handed to compare_pdfs: they differ in place, in
\* raw text and in colour value; the second is extracted first when both are
\* on a page in this order and sorts last
SpanPool ==
  { [text |-> <<"A", "b", " ">>, bbox |-> <<0, 20, 50, 30>>, font |-> "F1", size |-> 1000,
     color |-> [kind |-> "int", val |-> <<255>>]],
    [text |-> <<"a", "c">>, bbox |-> <<0, 0, 50, 10>>, font |-> "F1", size |-> 1000,
     color |-> [kind |-> "int", val |-> <<0>>]] }

NumSpans(doc) == SumSeq([n \in DOMAIN doc |-> Len(doc[n])])

Docs == {doc \in SeqsUpTo(SeqsUpTo(SpanPool, MaxSpans), MaxPages) : NumSpans(doc) <= MaxSpans}

\* a path names a document, or a file fitz.open cannot open
DocFiles ==
  {[readable |-> TRUE, pages |-> doc] : doc \in Docs}
    \cup {[readable |-> FALSE, pages |-> <<>>]}

NoFile == [readable |-> FALSE, pages |-> <<>>]

\* the defaults of compare_pdfs: similarity 0.8, position 5.0, formatting checked
DefaultComparer == PDFComparer(8, 5, TRUE)

\* fragments of the stores handed to find_differences directly: the same
\* text 4 points apart, so that the first is similar to the second, the
\* second to the third, and the first is not similar to the third
FragKinds == {0, 4, 8}

Frag(kind, page) ==
  TextBlock(<<0, kind, 50, kind + 10>>, <<"a", "b">>, page, "F1", 1000, <<0, 0, 0>>)

\* page indices of those stores; 8 falls into the table entry of 0
PageIds == {0, 8}

\* the orders in which a store can hold pages: a dict keeps insertion order
PageOrders ==
  {o \in SeqsUpTo(PageIds, Cardinality(PageIds)) :
     \A k1, k2 \in DOMAIN o : k1 # k2 => o[k1] # o[k2]}

FragLists == SeqsUpTo(FragKinds, MaxStoreFrags)

StoreOf(o, fl) ==
  [k \in DOMAIN o |->
     [page |-> o[k], blocks |-> [n \in DOMAIN fl[k] |-> Frag(fl[k][n], o[k])]]]

Stores ==
  UNION {{StoreOf(o, fl) :
            fl \in {f \in [DOMAIN o -> FragLists] :
                      SumSeq([k \in DOMAIN o |-> Len(f[k])]) <= MaxStoreFrags}} :
         o \in PageOrders}

\* blocks and configurations for blocks_are_similar; parse_arguments takes
\* any float for --similarity and --position
SimTexts == {<<"a", "b">>, <<"A", "b">>, <<"a", "\t", " ", "b">>, <<"a", " ", "b">>}

SimBlocks ==
  {TextBlock(<<0, y, 50, y + 10>>, t, 0, f, sz, c) :
     y \in {0, 5}, t \in SimTexts, f \in {"F1", "F2"}, sz \in {1000, 1005, 1200},
     c \in {<<0, 0, 0>>, <<1, 0, 0>>}}

SimComparers ==
  {PDFComparer(st, pt, cf) : st \in {0, 8, 10, 15}, pt \in {-1, 0, 5}, cf \in BOOLEAN}

\* texts for calculate_text_similarity
Chars == {"a", "b", "c", "A", " "}

Texts == SeqsUpTo(Chars, MaxTextLen)

TextOnly(t) == TextBlock(<<0, 0, 0, 0>>, t, 0, "", 0, <<0, 0, 0>>)

NoBlock == TextOnly(<<>>)

\* ------------------------------------------------------------------------
\* State
\* ------------------------------------------------------------------------
VARIABLES
  comparer,         \* the PDFComparer of the run
  original_path,    \* the file at original_path
  modified_path,    \* the file at modified_path
  pc,               \* where the run is
  original_blocks,  \* store of the original revision
  modified_blocks,  \* store of the modified revision
  differences,      \* the list find_differences returned
  evals,            \* the calls of blocks_are_similar find_differences made
  page_num,         \* the loop variable of line 186
  files,            \* the image files written, in the order written
  outcome,          \* "running", "success", "no_differences" or "error"
  stages,           \* the stages entered so far, in order
  failed_at,        \* the page whose rendering raised, -1 if none
  block1,           \* first argument of a similarity call
  block2,           \* second argument of a similarity call
  result            \* what the similarity call returned, <<>> before it returns

vars == <<comparer, original_path, modified_path, pc, original_blocks,
          modified_blocks, differences, evals, page_num, files, outcome, stages,
          failed_at, block1, block2, result>>

inputs == <<comparer, original_path, modified_path>>

simVars == <<block1, block2, result>>

NoSimCall == block1 = NoBlock /\ block2 = NoBlock /\ result = <<>>

NoRun ==
  /\ original_path = NoFile /\ modified_path = NoFile
  /\ page_num = 0 /\ files = <<>> /\ outcome = "running" /\ stages = <<>>
  /\ failed_at = -1

\* ------------------------------------------------------------------------
\* compare_pdfs
\* ------------------------------------------------------------------------
Init ==
  /\ comparer = DefaultComparer
  /\ original_path \in DocFiles
  /\ modified_path \in DocFiles
  /\ pc = "start"
  /\ original_blocks = <<>> /\ modified_blocks = <<>>
  /\ differences = <<>> /\ evals = <<>>
  /\ page_num = 0 /\ files = <<>> /\ outcome = "running" /\ stages = <<>>
  /\ failed_at = -1
  /\ NoSimCall

\* Raise without the raise of line 251: the run ends as if it had succeeded
RaiseSwallowed ==
  /\ pc' = "done"
  /\ outcome' = "success"

\* lines 249-251: the exception is printed and raised again
Raise ==
  /\ pc' = "done"
  /\ outcome' = "error"

\* line 233
ParseOriginal ==
  /\ pc = "start"
  /\ original_path.readable
  /\ original_blocks' = get_text_blocks(original_path.pages)
  /\ stages' = Append(stages, "parse_original")
  /\ pc' = "parsed_original"
  /\ UNCHANGED <<inputs, modified_blocks, differences, evals, page_num, files,
                 outcome, failed_at, simVars>>

\* line 233, fitz.open raises (line 61)
ParseOriginalFails ==
  /\ pc = "start"
  /\ ~original_path.readable
  /\ stages' = Append(stages, "parse_original")
  /\ Raise
  /\ UNCHANGED <<inputs, original_blocks, modified_blocks, differences, evals,
                 page_num, files, failed_at, simVars>>

\* line 236
ParseModified ==
  /\ pc = "parsed_original"
  /\ modified_path.readable
  /\ modified_blocks' = get_text_blocks(modified_path.pages)
  /\ stages' = Append(stages, "parse_modified")
  /\ pc' = "parsed_modified"
  /\ UNCHANGED <<inputs, original_blocks, differences, evals, page_num, files,
                 outcome, failed_at, simVars>>

\* line 236, fitz.open raises (line 61)
ParseModifiedFails ==
  /\ pc = "parsed_original"
  /\ ~modified_path.readable
  /\ stages' = Append(stages, "parse_modified")
  /\ Raise
  /\ UNCHANGED <<inputs, original_blocks, modified_blocks, differences, evals,
                 page_num, files, failed_at, simVars>>

\* the list find_differences returns is bound to differences
Returned(r) == differences' = r.differences /\ evals' = r.evals

\* line 239
FindDifferences ==
  /\ pc = "parsed_modified"
  /\ Returned(find_differences(original_blocks, modified_blocks, comparer))
  /\ stages' = Append(stages, "aggregate")
  /\ pc' = "found"
  /\ UNCHANGED <<inputs, original_blocks, modified_blocks, page_num, files,
                 outcome, failed_at, simVars>>

\* HasDifferences without the test of line 241
AlwaysHighlight == TRUE

\* line 241: if differences
HasDifferences == differences # <<>>

\* lines 246-247
ReportNoDifferences ==
  /\ pc = "found"
  /\ ~HasDifferences
  /\ pc' = "done"
  /\ outcome' = "no_differences"
  /\ UNCHANGED <<inputs, original_blocks, modified_blocks, differences, evals,
                 page_num, files, stages, failed_at, simVars>>

\* lines 242-244 and 174-184: the output directory is made, the modified
\* document opened again, the differences grouped
HighlightStart ==
  /\ pc = "found"
  /\ HasDifferences
  /\ stages' = Append(stages, "render")
  /\ page_num' = 0
  /\ pc' = "rendering"
  /\ UNCHANGED <<inputs, original_blocks, modified_blocks, differences, evals,
                 files, outcome, failed_at, simVars>>

\* os.makedirs or fitz.open raises
HighlightStartFails ==
  /\ pc = "found"
  /\ HasDifferences
  /\ stages' = Append(stages, "render")
  /\ Raise
  /\ UNCHANGED <<inputs, original_blocks, modified_blocks, differences, evals,
                 page_num, files, failed_at, simVars>>

\* lines 187-188: a page without differences is skipped
SkipPage ==
  /\ pc = "rendering"
  /\ page_num < Len(modified_path.pages)
  /\ ~PageHasChanges(differences, page_num)
  /\ page_num' = page_num + 1
  /\ UNCHANGED <<inputs, pc, original_blocks, modified_blocks, differences, evals,
                 files, outcome, stages, failed_at, simVars>>

\* lines 190-214: the page is rendered, annotated and saved
RenderPage ==
  /\ pc = "rendering"
  /\ page_num < Len(modified_path.pages)
  /\ PageHasChanges(differences, page_num)
  /\ files' = Append(files, OutputFile(differences, page_num))
  /\ page_num' = page_num + 1
  /\ UNCHANGED <<inputs, pc, original_blocks, modified_blocks, differences, evals,
                 outcome, stages, failed_at, simVars>>

\* RenderPageFails cleaning up the images already written
RenderPageFailsRollingBack ==
  /\ pc = "rendering"
  /\ page_num < Len(modified_path.pages)
  /\ PageHasChanges(differences, page_num)
  /\ failed_at' = page_num
  /\ files' = <<>>
  /\ Raise
  /\ UNCHANGED <<inputs, original_blocks, modified_blocks, differences, evals,
                 page_num, stages, simVars>>

\* lines 190-213 raise (get_pixmap, the compositor or save): the loop is
\* left, nothing is written for this page
RenderPageFails ==
  /\ pc = "rendering"
  /\ page_num < Len(modified_path.pages)
  /\ PageHasChanges(differences, page_num)
  /\ failed_at' = page_num
  /\ Raise
  /\ UNCHANGED <<inputs, original_blocks, modified_blocks, differences, evals,
                 page_num, files, stages, simVars>>

\* line 216 and line 245
HighlightDone ==
  /\ pc = "rendering"
  /\ page_num >= Len(modified_path.pages)
  /\ pc' = "done"
  /\ outcome' = "success"
  /\ UNCHANGED <<inputs, original_blocks, modified_blocks, differences, evals,
                 page_num, files, stages, failed_at, simVars>>

Next ==
  \/ ParseOriginal
  \/ ParseOriginalFails
  \/ ParseModified
  \/ ParseModifiedFails
  \/ FindDifferences
  \/ ReportNoDifferences
  \/ HighlightStart
  \/ HighlightStartFails
  \/ SkipPage
  \/ RenderPage
  \/ RenderPageFails
  \/ HighlightDone

Spec == Init /\ [][Next]_vars

\* ------------------------------------------------------------------------
\* find_differences called on any two stores
\* ------------------------------------------------------------------------
InitFD ==
  /\ comparer = DefaultComparer
  /\ original_blocks \in Stores
  /\ modified_blocks \in Stores
  /\ pc = "call"
  /\ differences = <<>> /\ evals = <<>>
  /\ NoRun
  /\ NoSimCall

CallFindDifferences ==
  /\ pc = "call"
  /\ Returned(find_differences(original_blocks, modified_blocks, comparer))
  /\ pc' = "returned"
  /\ UNCHANGED <<inputs, original_blocks, modified_blocks, page_num, files,
                 outcome, stages, failed_at, simVars>>

NextFD == CallFindDifferences

SpecFD == InitFD /\ [][NextFD]_vars

\* ------------------------------------------------------------------------
\* blocks_are_similar called on any two blocks under any configuration
\* ------------------------------------------------------------------------
InitSim ==
  /\ comparer \in SimComparers
  /\ block1 \in SimBlocks
  /\ block2 \in SimBlocks
  /\ result = <<>>
  /\ pc = "call"
  /\ original_blocks = <<>> /\ modified_blocks = <<>>
  /\ differences = <<>> /\ evals = <<>>
  /\ NoRun

CallBlocksAreSimilar ==
  /\ pc = "call"
  /\ result' = <<blocks_are_similar(block1, block2, comparer)>>
  /\ pc' = "returned"
  /\ UNCHANGED <<inputs, original_blocks, modified_blocks, differences, evals,
                 page_num, files, outcome, stages, failed_at, block1, block2>>

NextSim == CallBlocksAreSimilar

SpecSim == InitSim /\ [][NextSim]_vars

\* ------------------------------------------------------------------------
\* calculate_text_similarity called on any two texts
\* ------------------------------------------------------------------------
InitText ==
  /\ comparer = DefaultComparer
  /\ block1 \in {TextOnly(t) : t \in Texts}
  /\ block2 \in {TextOnly(t) : t \in Texts}
  /\ result = <<>>
  /\ pc = "call"
  /\ original_blocks = <<>> /\ modified_blocks = <<>>
  /\ differences = <<>> /\ evals = <<>>
  /\ NoRun

CallCalculateTextSimilarity ==
  /\ pc = "call"
  /\ result' = calculate_text_similarity(block1.text, block2.text)
  /\ pc' = "returned"
  /\ UNCHANGED <<inputs, original_blocks, modified_blocks, differences, evals,
                 page_num, files, outcome, stages, failed_at, block1, block2>>

NextText == CallCalculateTextSimilarity

SpecText == InitText /\ [][NextText]_vars

\* ------------------------------------------------------------------------
\* Properties
\* ------------------------------------------------------------------------
\* the differences reported for page p, and their indices in the page's
\* modified sequence, in the order of the result
DifferencesOfPage(p) == SelectSeq(differences, LAMBDA d : d.page = p)

IndicesOfPage(p) == [k \in DOMAIN DifferencesOfPage(p) |-> DifferencesOfPage(p)[k].idx]

OriginalOf(p) == DictGet(original_blocks, p, <<>>)

ModifiedOf(p) == DictGet(modified_blocks, p, <<>>)

\* Greedy first-fit as the design states it: the modified blocks i, i+1, ...
\* in their order, each taking the lowest original that is not in taken and
\* is similar; the result is the indices of the modified blocks left over.
RECURSIVE GreedyLeftOver(_, _, _, _, _)
GreedyLeftOver(orig, mod, i, taken, self) ==
  IF i >= Len(mod) THEN <<>>
  ELSE IF \E j \in 0..(Len(orig) - 1) :
            j \notin taken /\ blocks_are_similar(mod[i + 1], orig[j + 1], self)
       THEN GreedyLeftOver(orig, mod, i + 1,
              taken \cup {CHOOSE j \in 0..(Len(orig) - 1) :
                            /\ j \notin taken
                            /\ blocks_are_similar(mod[i + 1], orig[j + 1], self)
                            /\ \A j2 \in 0..(j - 1) :
                                 j2 \in taken
                                   \/ ~blocks_are_similar(mod[i + 1], orig[j2 + 1], self)},
              self)
       ELSE <<i>> \o GreedyLeftOver(orig, mod, i + 1, taken, self)

\* C1: on a page where both revisions have fragments, the differences are
\* exactly the modified fragments that greedy first-fit one-to-one matching,
\* taken in the given orders, leaves unmatched.
C1_GreedyFirstFit ==
  pc = "returned" =>
    \A p \in PageIds :
      (OriginalOf(p) # <<>> /\ ModifiedOf(p) # <<>>) =>
        IndicesOfPage(p) = GreedyLeftOver(OriginalOf(p), ModifiedOf(p), 0, {}, comparer)

\* a page where two modified blocks are both similar to the one original
\* block that the first of them takes, so that the second is left over
C1_Witness ==
  /\ pc = "returned"
  /\ \E p \in PageIds :
       /\ Len(OriginalOf(p)) = 1 /\ Len(ModifiedOf(p)) = 2
       /\ blocks_are_similar(ModifiedOf(p)[1], OriginalOf(p)[1], comparer)
       /\ blocks_are_similar(ModifiedOf(p)[2], OriginalOf(p)[1], comparer)
       /\ IndicesOfPage(p) = <<1>>

\* C2: the result is ordered by ascending page index and, within a page, in
\* the order of the page's modified sequence, for every pair of stores.
C2_AscendingPages ==
  pc = "returned" =>
    \A k1, k2 \in DOMAIN differences :
      k1 < k2 =>
        \/ differences[k1].page < differences[k2].page
        \/ /\ differences[k1].page = differences[k2].page
           /\ differences[k1].idx < differences[k2].idx

\* C3: a page whose original side has no fragments reports every modified
\* fragment of the page, in order, and no similarity evaluation is made for it.
C3_NoOriginalAllReported ==
  pc = "returned" =>
    \A p \in PageIds :
      OriginalOf(p) = <<>> =>
        /\ DifferencesOfPage(p) =
             [k \in DOMAIN ModifiedOf(p) |-> Difference(p, k - 1, ModifiedOf(p))]
        /\ \A k \in DOMAIN evals : evals[k][1] # p

\* such a page next to a page on which evaluations were made
C3_Witness ==
  /\ pc = "returned"
  /\ \E p \in PageIds :
       OriginalOf(p) = <<>> /\ ModifiedOf(p) # <<>> /\ DifferencesOfPage(p) # <<>>
  /\ evals # <<>>

\* C4: every element of the result is a fragment of the modified store, none
\* twice, and a page without modified fragments contributes nothing.
C4_OnlyModifiedFragments ==
  pc = "returned" =>
    /\ \A k \in DOMAIN differences :
         /\ differences[k].idx < Len(ModifiedOf(differences[k].page))
         /\ ModifiedOf(differences[k].page)[differences[k].idx + 1] = differences[k].block
    /\ \A k1, k2 \in DOMAIN differences :
         k1 # k2 => <<differences[k1].page, differences[k1].idx>>
                      # <<differences[k2].page, differences[k2].idx>>
    /\ \A p \in PageIds : ModifiedOf(p) = <<>> => DifferencesOfPage(p) = <<>>

\* a page with original fragments and none in the modified store, next to
\* a page that does report a difference
C4_Witness ==
  /\ pc = "returned"
  /\ \E p \in PageIds : OriginalOf(p) # <<>> /\ ModifiedOf(p) = <<>>
  /\ differences # <<>>

\* the two blocks agree in normalized text, bounding box, font, size, colour
IdenticalBlocks ==
  /\ NormalizeText(block1.text) = NormalizeText(block2.text)
  /\ block1.bbox = block2.bbox
  /\ block1.font = block2.font
  /\ block1.size = block2.size
  /\ block1.color = block2.color

\* C5 as stated: identical blocks are similar whatever the configuration.
C5_IdenticalAlwaysSimilar ==
  (pc = "returned" /\ IdenticalBlocks) => result = <<TRUE>>

\* C5 as amended: identical blocks are similar, with or without the
\* formatting check, when the similarity threshold is at most 1.0 and the
\* position threshold is not negative.
C5_IdenticalSimilarInRange ==
  (/\ pc = "returned"
   /\ IdenticalBlocks
   /\ comparer.similarity_threshold <= 10
   /\ comparer.position_threshold >= 0) => result = <<TRUE>>

\* identical blocks whose raw texts differ, under the strictest thresholds
\* of the range
C5_Witness ==
  /\ pc = "returned"
  /\ IdenticalBlocks
  /\ block1.text # block2.text
  /\ comparer = PDFComparer(10, 0, TRUE)
  /\ result = <<TRUE>>

\* C6: the similarity ratio is symmetric.
C6_RatioSymmetric ==
  pc = "returned" =>
    RatioEq(result, calculate_text_similarity(block2.text, block1.text))

\* the pages that have at least one difference
AffectedPages == {differences[k].block.page : k \in DOMAIN differences}

FileNames == [k \in DOMAIN files |-> files[k].name]

Ascending(s) == \A k1, k2 \in DOMAIN s : k1 < k2 => s[k1] < s[k2]

\* C7: when the comparison yields no differences, no image is ever written,
\* the render stage is never entered, and the run ends with the outcome
\* "no_differences", which no run with differences ends with.
C7_NoDifferencesNoFiles ==
  /\ (pc \in {"found", "rendering", "done"} /\ "aggregate" \in Range(stages)
        /\ differences = <<>>) =>
       /\ files = <<>>
       /\ "render" \notin Range(stages)
       /\ pc = "done" => outcome = "no_differences"
  /\ outcome = "no_differences" => differences = <<>>

\* a run that compared two documents with text and found nothing
C7_Witness ==
  /\ pc = "done"
  /\ outcome = "no_differences"
  /\ \E k \in DOMAIN modified_blocks : modified_blocks[k].blocks # <<>>
  /\ files = <<>>

\* C8: after a render that completes, the files written are those numbered
\* p+1 for the pages p with a difference, one each, written in ascending
\* order; and files are written in ascending order throughout.
C8_OneFilePerAffectedPage ==
  /\ Ascending(FileNames)
  /\ outcome = "success" =>
       Range(FileNames) = {p + 1 : p \in AffectedPages}

\* a completed render of two affected pages
C8_Witness ==
  /\ outcome = "success"
  /\ FileNames = <<1, 2>>

StageOrder == <<"parse_original", "parse_modified", "aggregate", "render">>

\* C9: the stages are entered in the order parse original, parse modified,
\* aggregate, render; when a document cannot be parsed the run ends in an
\* error, the render stage is never entered and no image is written.
C9_StagesInOrderParseErrorAborts ==
  /\ Len(stages) <= Len(StageOrder)
  /\ stages = SubSeq(StageOrder, 1, Len(stages))
  /\ (~original_path.readable \/ ~modified_path.readable) =>
       /\ "aggregate" \notin Range(stages)
       /\ "render" \notin Range(stages)
       /\ files = <<>>
       /\ pc = "done" => outcome = "error"
  /\ (pc = "done" /\ ~original_path.readable) => stages = <<"parse_original">>

\* a run whose original parsed to blocks and whose modified could not be opened
C9_Witness ==
  /\ pc = "done"
  /\ outcome = "error"
  /\ stages = <<"parse_original", "parse_modified">>
  /\ \E k \in DOMAIN original_blocks : original_blocks[k].blocks # <<>>

\* C10: when rendering raises on page failed_at, the run ends in an error,
\* and the files on disk are exactly those of the affected pages before
\* failed_at: none for the failing page or a later one, none taken back.
C10_RenderErrorKeepsEarlierFiles ==
  failed_at >= 0 =>
    /\ pc = "done"
    /\ outcome = "error"
    /\ Ascending(FileNames)
    /\ Range(FileNames) = {p + 1 : p \in {q \in AffectedPages : q < failed_at}}
    /\ \A k \in DOMAIN files : files[k] = OutputFile(differences, files[k].name - 1)

\* rendering raised on the second page after the first page's file was written
C10_Witness ==
  /\ failed_at = 1
  /\ Len(files) = 1
  /\ outcome = "error"

====
